---- MODULE Spec2Model ----
(***************************************************************************)
(* A model of the rparser C preprocessor front end: the line phases of     *)
(* initial/src/lines.rs (Lines::new, merge_escaped_newlines,               *)
(* delete_comments, finish) and the tokenizer of preprocessor/src/lexer.rs,*)
(* driven as cpp/src/main.rs drives them.                                  *)
(*                                                                         *)
(* Bytes are their ASCII codes; a buffer is a sequence of bytes.  Buffer   *)
(* offsets are 0-based as in the source, so byte `pos` of a buffer b is    *)
(* b[pos + 1].                                                             *)
(***************************************************************************)
EXTENDS Integers, Sequences, FiniteSets, TLC

VARIABLES input, lines, merged, builder, comments, wr, rd, buf, lexer, tokens, pc

vars == <<input, lines, merged, builder, comments, wr, rd, buf, lexer, tokens, pc>>

(***************************************************************************)
(* The bytes the source names in its byte literals.                        *)
(***************************************************************************)
NUL == 0
TAB == 9
NL == 10
CR == 13
SP == 32
BANG == 33
DQUOTE == 34
HASH == 35
PERCENT == 37
AMP == 38
SQUOTE == 39
LPAREN == 40
RPAREN == 41
STAR == 42
PLUS == 43
COMMA == 44
MINUS == 45
DOT == 46
SLASH == 47
DIGIT0 == 48
DIGIT9 == 57
COLON == 58
SEMI == 59
LT == 60
EQ == 61
GT == 62
QUESTION == 63
UPPER_A == 65
UPPER_E == 69
UPPER_P == 80
UPPER_Z == 90
LBRACK == 91
BACKSLASH == 92
RBRACK == 93
CARET == 94
UNDERSCORE == 95
LOWER_A == 97
LOWER_E == 101
LOWER_P == 112
LOWER_Z == 122
LBRACE == 123
PIPE == 124
RBRACE == 125
TILDE == 126

(***************************************************************************)
(* Bounds of the model: the longest input given to the line pipeline and   *)
(* the longest buffer given directly to lex.                               *)
(***************************************************************************)
MaxInput == 5
MaxBuf == 5

\* The bytes the pipeline's inputs are drawn from.
PipeBytes == {SLASH, STAR, BACKSLASH, NL, DQUOTE, LOWER_A}

\* The bytes the buffers given directly to lex are drawn from.
LexBytes == {DQUOTE, BACKSLASH, NL, LT, GT, HASH, LOWER_A, SP}

BoundedSeq(S, n) == UNION {[1..k -> S] : k \in 0..n}

MinOf(S) == CHOOSE k \in S : \A j \in S : k <= j

Falses(n) == [i \in 1..n |-> FALSE]

(***************************************************************************)
(* line.rs: Line, OwnedLine, CharInfo.                                     *)
(***************************************************************************)
LineEmpty == [text |-> <<>>, trivial |-> <<>>, synthetic |-> <<>>]

OwnedLineEmpty == [text |-> <<>>, trivial |-> <<>>, synthetic |-> <<>>]

\* Line::new(data).build(): both flag vectors default to all-false.
LineBuild(text) == [text |-> text, trivial |-> Falses(Len(text)), synthetic |-> Falses(Len(text))]

CharInfoNew(ch, trivial, synthetic) == [ch |-> ch, trivial |-> trivial, synthetic |-> synthetic]

\* OwnedLine::push
Push(b, info) ==
    [text |-> Append(b.text, info.ch),
     trivial |-> Append(b.trivial, info.trivial),
     synthetic |-> Append(b.synthetic, info.synthetic)]

\* Line::chars: izip! stops at the shortest of the three vectors.
CharsLen(line) ==
    MinOf({Len(line.text), Len(line.trivial), Len(line.synthetic)})

Chars(line) ==
    [i \in 1..CharsLen(line) |-> CharInfoNew(line.text[i], line.trivial[i], line.synthetic[i])]

\* Line::to_non_trivial: zip of text and trivial, keeping the bytes whose flag is false.
RECURSIVE NonTrivialFrom(_, _)
NonTrivialFrom(line, i) ==
    IF i > Len(line.text) \/ i > Len(line.trivial) THEN <<>>
    ELSE (IF line.trivial[i] THEN <<>> ELSE <<line.text[i]>>) \o NonTrivialFrom(line, i + 1)

ToNonTrivial(line) == NonTrivialFrom(line, 1)

(***************************************************************************)
(* Lines::new: bstr's lines() splits after every \n and trims the          *)
(* terminator (\n or \r\n) of each piece.                                  *)
(***************************************************************************)
RECURSIVE LinesWithTerminator(_)
LinesWithTerminator(s) ==
    IF Len(s) = 0 THEN <<>>
    ELSE LET nls == {i \in 1..Len(s) : s[i] = NL}
         IN IF nls = {} THEN <<s>>
            ELSE LET k == MinOf(nls)
                 IN <<SubSeq(s, 1, k)>> \o LinesWithTerminator(SubSeq(s, k + 1, Len(s)))

TrimLastTerminator(s) ==
    IF Len(s) > 0 /\ s[Len(s)] = NL
    THEN LET t == SubSeq(s, 1, Len(s) - 1)
         IN IF Len(t) > 0 /\ t[Len(t)] = CR THEN SubSeq(t, 1, Len(t) - 1) ELSE t
    ELSE s

LinesNew(inp) ==
    LET parts == LinesWithTerminator(inp)
    IN [i \in 1..Len(parts) |-> LineBuild(TrimLastTerminator(parts[i]))]

(***************************************************************************)
(* Lines::merge_escaped_newlines.  `wrap` is the build's integer overflow  *)
(* behaviour: with overflow checks (wrap = FALSE) `len - 2` panics when    *)
(* len < 2; without them it wraps to a huge count and take() keeps every   *)
(* flag.  The result is the sequence left after truncate(write_idx).       *)
(***************************************************************************)
EndsWithBackslash(text) == Len(text) > 0 /\ text[Len(text)] = BACKSLASH

RECURSIVE MergeLoop(_, _, _, _, _)
MergeLoop(ls, mrd, mb, out, wrap) ==
    IF mrd > Len(ls)
    THEN [panic |-> FALSE, lines |-> IF Len(mb.text) > 0 THEN Append(out, mb) ELSE out]
    ELSE LET line == ls[mrd]
         IN IF EndsWithBackslash(line.text)
            THEN IF Len(line.trivial) < 2 /\ ~wrap
                 THEN [panic |-> TRUE, lines |-> out]
                 ELSE LET n == IF Len(line.trivial) < 2 THEN Len(line.trivial)
                               ELSE Len(line.trivial) - 2
                          nb == [text |-> mb.text \o line.text,
                                 synthetic |-> mb.synthetic \o line.synthetic,
                                 trivial |-> mb.trivial \o SubSeq(line.trivial, 1, n) \o <<TRUE, TRUE>>]
                      IN MergeLoop(ls, mrd + 1, nb, out, wrap)
            ELSE IF Len(mb.text) = 0
                 THEN MergeLoop(ls, mrd + 1, mb, Append(out, line), wrap)
                 ELSE LET nb == [text |-> mb.text \o line.text,
                                 trivial |-> mb.trivial \o line.trivial,
                                 synthetic |-> mb.synthetic \o line.synthetic]
                      IN MergeLoop(ls, mrd + 1, OwnedLineEmpty, Append(out, nb), wrap)

MergeEscapedNewlines(ls, wrap) == MergeLoop(ls, 1, OwnedLineEmpty, <<>>, wrap)

(***************************************************************************)
(* CommentState, should_emit, backtrack.                                   *)
(***************************************************************************)
CommentStateNew ==
    [in_string |-> FALSE, in_block_comment |-> FALSE, in_line_comment |-> FALSE, prev_char |-> NUL]

\* Some(Emit::new(ch)) with the state c.
EmitNew(ch, c) == [some |-> TRUE, ch |-> ch, pop_count |-> 0, comments |-> c]

\* Some(Emit { ch: b' ', pop_count: 2 }) with the state c.
EmitSpace(c) == [some |-> TRUE, ch |-> SP, pop_count |-> 2, comments |-> c]

\* None with the state c.
EmitNone(ch, c) == [some |-> FALSE, ch |-> ch, pop_count |-> 0, comments |-> c]

\* Mutant of ShouldEmitOutside: a block comment is closed by any /, whatever
\* prev_char is.
ShouldEmitOutsideAnySlash(ch, c) ==
    IF c.in_block_comment /\ ch = SLASH
    THEN EmitNone(ch, [c EXCEPT !.in_block_comment = FALSE])
    ELSE IF c.in_line_comment /\ ch = NL
    THEN EmitNew(ch, [c EXCEPT !.in_line_comment = FALSE])
    ELSE IF c.in_line_comment \/ c.in_block_comment
    THEN EmitNone(ch, c)
    ELSE CASE ch = SLASH ->
                IF c.prev_char = SLASH
                THEN EmitSpace([c EXCEPT !.in_line_comment = TRUE])
                ELSE EmitNew(ch, c)
           [] ch = STAR ->
                IF c.prev_char = SLASH
                THEN EmitSpace([c EXCEPT !.in_block_comment = TRUE])
                ELSE EmitNew(ch, c)
           [] ch = DQUOTE -> EmitNew(ch, [c EXCEPT !.in_string = ~c.in_string])
           [] OTHER -> EmitNew(ch, c)

\* should_emit outside a string: the branches after `if comments.in_string`.
ShouldEmitOutside(ch, c) ==
    IF c.in_block_comment /\ ch = SLASH /\ c.prev_char = STAR
    THEN EmitNone(ch, [c EXCEPT !.in_block_comment = FALSE])
    ELSE IF c.in_line_comment /\ ch = NL
    THEN EmitNew(ch, [c EXCEPT !.in_line_comment = FALSE])
    ELSE IF c.in_line_comment \/ c.in_block_comment
    THEN EmitNone(ch, c)
    ELSE CASE ch = SLASH ->
                IF c.prev_char = SLASH
                THEN EmitSpace([c EXCEPT !.in_line_comment = TRUE])
                ELSE EmitNew(ch, c)
           [] ch = STAR ->
                IF c.prev_char = SLASH
                THEN EmitSpace([c EXCEPT !.in_block_comment = TRUE])
                ELSE EmitNew(ch, c)
           [] ch = DQUOTE -> EmitNew(ch, [c EXCEPT !.in_string = ~c.in_string])
           [] OTHER -> EmitNew(ch, c)

\* Mutant of ShouldEmit: the in_string branch is missing, so comment openers
\* are looked for inside strings too.
ShouldEmitNoString(ch, c) == ShouldEmitOutside(ch, c)

ShouldEmit(ch, c) ==
    IF c.in_string
    THEN EmitNew(ch, IF ch = DQUOTE /\ c.prev_char # BACKSLASH
                     THEN [c EXCEPT !.in_string = FALSE] ELSE c)
    ELSE ShouldEmitOutside(ch, c)

\* The inner while loop of backtrack: i moves left over trivial flags.
RECURSIVE SkipTrivial(_, _)
SkipTrivial(trivial, i) ==
    IF i > 0 /\ trivial[i] THEN SkipTrivial(trivial, i - 1) ELSE i

\* backtrack's for loop; builder.trivial[i - 1] with i = 0 is out of range
\* in every build (the subtraction overflows or the index is usize::MAX).
RECURSIVE BacktrackLoop(_, _, _)
BacktrackLoop(b, i, n) ==
    IF n = 0 THEN [panic |-> FALSE, builder |-> b]
    ELSE LET j == SkipTrivial(b.trivial, i)
         IN IF j = 0 THEN [panic |-> TRUE, builder |-> b]
            ELSE BacktrackLoop([b EXCEPT !.trivial[j] = TRUE], j, n - 1)

Backtrack(b, pop_count) == BacktrackLoop(b, Len(b.text), pop_count)

\* *builder.trivial.last_mut().unwrap() = true
SetLastTrivial(b) ==
    IF Len(b.trivial) = 0 THEN [panic |-> TRUE, builder |-> b]
    ELSE [panic |-> FALSE, builder |-> [b EXCEPT !.trivial[Len(b.trivial)] = TRUE]]

\* What follows should_emit in delete_comments, for the character `ch` fed
\* to it: backtrack and the substitute byte, or the last flag set.
ApplyEmit(b, e, ch) ==
    IF e.some
    THEN LET bt == Backtrack(b, e.pop_count)
         IN IF bt.panic THEN bt
            ELSE [panic |-> FALSE,
                  builder |-> IF e.ch # ch THEN Push(bt.builder, CharInfoNew(e.ch, FALSE, TRUE))
                              ELSE bt.builder]
    ELSE SetLastTrivial(b)

\* One iteration of the inner loop of delete_comments (lines.rs 65-79).
CharStep(st, info) ==
    IF st.panic THEN st
    ELSE LET e == ShouldEmit(info.ch, st.comments)
             a == ApplyEmit(Push(st.builder, info), e, info.ch)
         IN [panic |-> a.panic,
             builder |-> a.builder,
             comments |-> IF info.trivial THEN e.comments
                          ELSE [e.comments EXCEPT !.prev_char = info.ch]]

RECURSIVE CharLoop(_, _, _)
CharLoop(st, cs, i) ==
    IF i > Len(cs) THEN st ELSE CharLoop(CharStep(st, cs[i]), cs, i + 1)

\* The end of a line in delete_comments (lines.rs 80-88): the virtual \n.
EolStep(st) ==
    IF st.panic THEN st
    ELSE LET e == ShouldEmit(NL, st.comments)
             a == ApplyEmit(st.builder, e, NL)
         IN [panic |-> a.panic,
             builder |-> a.builder,
             comments |-> [e.comments EXCEPT !.prev_char = NL]]

\* One iteration of the outer loop, up to the flush decision.
LineStep(b, c, line) ==
    EolStep(CharLoop([panic |-> FALSE, builder |-> b, comments |-> c], Chars(line), 1))

\* Mutant of FlushesLine: the wrong flag is tested.
FlushesUnlessInString(c) == ~c.in_string

\* Mutant of FlushesLine: every line is written out at its end.
FlushesEveryLine(c) == TRUE

\* `if !comments.in_block_comment`: the builder is written out at the end
\* of the line.
FlushesLine(c) == ~c.in_block_comment

\* The whole of delete_comments as a function of the sequence.
RECURSIVE DeleteLoop(_, _, _, _, _)
DeleteLoop(ls, i, b, c, out) ==
    IF i > Len(ls) THEN [panic |-> FALSE, lines |-> out]
    ELSE LET st == LineStep(b, c, ls[i])
         IN IF st.panic THEN [panic |-> TRUE, lines |-> out]
            ELSE IF FlushesLine(st.comments)
                 THEN DeleteLoop(ls, i + 1, OwnedLineEmpty, st.comments, Append(out, st.builder))
                 ELSE DeleteLoop(ls, i + 1, st.builder, st.comments, out)

DeleteComments(ls) == DeleteLoop(ls, 1, OwnedLineEmpty, CommentStateNew, <<>>)

(***************************************************************************)
(* Lines::finish: every line's non-trivial bytes, then \n.                 *)
(***************************************************************************)
RECURSIVE FinishFrom(_, _)
FinishFrom(ls, i) ==
    IF i > Len(ls) THEN <<>> ELSE ToNonTrivial(ls[i]) \o <<NL>> \o FinishFrom(ls, i + 1)

Finish(ls) == FinishFrom(ls, 1)

(***************************************************************************)
(* lexer.rs: the Lexer.  L is the record (pos, at_line_start,              *)
(* in_directive); Option<u8> is a byte or NoByte.                          *)
(***************************************************************************)
NoByte == -1

LexerNew == [pos |-> 0, at_line_start |-> TRUE, in_directive |-> FALSE]

Get(inp, L) == IF L.pos < Len(inp) THEN inp[L.pos + 1] ELSE NoByte

Peek(inp, L) == IF L.pos + 1 < Len(inp) THEN inp[L.pos + 2] ELSE NoByte

\* Mutant of MoveOn: a newline does not end the directive.
MoveOnKeepsDirective(inp, L) ==
    LET c == Get(inp, L)
    IN [pos |-> L.pos + 1,
        at_line_start |-> IF c = NL THEN TRUE ELSE L.at_line_start,
        in_directive |-> L.in_directive]

MoveOn(inp, L) ==
    LET c == Get(inp, L)
    IN [pos |-> L.pos + 1,
        at_line_start |-> IF c = NL THEN TRUE ELSE L.at_line_start,
        in_directive |-> IF c = NL THEN FALSE ELSE L.in_directive]

\* A token: its variant, the Punct kind ("" for the other variants) and the
\* byte range start..end of the buffer it was cut from.
Token(kind, punct, start, end) == [kind |-> kind, punct |-> punct, start |-> start, end |-> end]

NoTok == Token("", "", 0, 0)

\* Token::is_hash
IsHash(k) == k.kind = "Punct" /\ k.punct = "Hash"

\* The outcomes of one scanner call: Some(token), None, a panic, or a loop
\* that runs past the end of the buffer: get() is None from there on, so the
\* loop of scan_string_lit makes no exit before pos has counted through the
\* whole of usize.
Yield(L, k) == [out |-> "token", lex |-> L, tok |-> k]

NoToken(L) == [out |-> "none", lex |-> L, tok |-> NoTok]

Panicked(L) == [out |-> "panic", lex |-> L, tok |-> NoTok]

Spinning(L) == [out |-> "spin", lex |-> L, tok |-> NoTok]

EndToken(L, k) ==
    Yield([pos |-> L.pos,
           at_line_start |-> FALSE,
           in_directive |-> IF L.at_line_start /\ IsHash(k) THEN TRUE ELSE L.in_directive], k)

RECURSIVE SkipWhitespace(_, _)
SkipWhitespace(inp, L) ==
    LET c == Get(inp, L)
    IN IF c \in {SP, TAB, CR} THEN SkipWhitespace(inp, MoveOn(inp, L))
       ELSE IF c = NL THEN Yield(MoveOn(inp, L), Token("Eol", "", L.pos, L.pos + 1))
       ELSE NoToken(L)

IsIdentByte(c) == c \in LOWER_A..LOWER_Z \/ c \in UPPER_A..UPPER_Z \/ c = UNDERSCORE

IsDigit(c) == c \in DIGIT0..DIGIT9

RECURSIVE IdentLoop(_, _)
IdentLoop(inp, L) ==
    IF IsIdentByte(Get(inp, L)) THEN IdentLoop(inp, MoveOn(inp, L)) ELSE L

ScanIdent(inp, L) ==
    LET E == IdentLoop(inp, L)
    IN EndToken(E, Token("Ident", "", L.pos, E.pos))

IsExponentByte(c) == c \in {LOWER_E, UPPER_E, LOWER_P, UPPER_P}

\* Mutant of IsNumberByte: e, E, p and P are taken by the first arm too, so
\* no sign is consumed after them.
IsNumberByteWithExponent(c) == IsDigit(c) \/ c = DOT \/ IsIdentByte(c)

\* The first arm of the loop of scan_number: digits, '.', '_' and the
\* letters other than e, E, p, P.
IsNumberByte(c) == IsDigit(c) \/ c = DOT \/ (IsIdentByte(c) /\ ~IsExponentByte(c))

RECURSIVE NumberLoop(_, _)
NumberLoop(inp, L) ==
    LET c == Get(inp, L)
    IN IF IsNumberByte(c) THEN NumberLoop(inp, MoveOn(inp, L))
       ELSE IF IsExponentByte(c)
       THEN LET M == MoveOn(inp, L)
            IN NumberLoop(inp, IF Get(inp, M) \in {PLUS, MINUS} THEN MoveOn(inp, M) ELSE M)
       ELSE L

ScanNumber(inp, L) ==
    LET first == Get(inp, L)
        M == MoveOn(inp, L)
    IN IF first = DOT /\ ~IsDigit(Get(inp, M))
       THEN NoToken([M EXCEPT !.pos = L.pos])
       ELSE LET E == NumberLoop(inp, M)
            IN EndToken(E, Token("Number", "", L.pos, E.pos))

\* The loop of scan_string_lit.  Its result is the token at the terminator,
\* "break" at a \n, or "spin" once get() is None.
RECURSIVE StringLoop(_, _, _, _, _)
StringLoop(inp, L, first, terminator, start) ==
    LET c == Get(inp, L)
    IN IF c = NoByte THEN Spinning(L)
       ELSE IF c = terminator
       THEN LET M == MoveOn(inp, L)
            IN EndToken(M, Token("StringLit", "", start, M.pos))
       ELSE IF c = BACKSLASH /\ first # LT
       THEN StringLoop(inp, MoveOn(inp, MoveOn(inp, L)), first, terminator, start)
       ELSE IF c = NL THEN [out |-> "break", lex |-> L, tok |-> NoTok]
       ELSE StringLoop(inp, MoveOn(inp, L), first, terminator, start)

ScanStringLit(inp, L) ==
    LET first == Get(inp, L)
        M == MoveOn(inp, L)
    IN IF first \notin {DQUOTE, SQUOTE, LT} THEN Panicked(L)
       ELSE IF Get(inp, M) \in {COLON, PERCENT} THEN NoToken([M EXCEPT !.pos = L.pos])
       ELSE LET terminator == IF first = LT THEN GT ELSE first
                r == StringLoop(inp, M, first, terminator, L.pos)
            IN IF r.out # "break" THEN r
               ELSE IF first = LT THEN NoToken([r.lex EXCEPT !.pos = L.pos])
               ELSE EndToken(r.lex, Token("Other", "", L.pos, r.lex.pos))

\* end_token(Token::Punct(name)) for the punctuator that began at start.
PunctAt(L, name, start) == EndToken(L, Token("Punct", name, start, L.pos))

\* Mutant of PunctMatch: the byte after the first is not looked at.
PunctMatchFirstOnly(inp, L, start, alt, single) == PunctAt(L, single, start)

\* `alt` is a sequence of <<byte, name>>: the punctuator named when the next
\* byte is that byte (the byte is consumed), else `single`.
RECURSIVE PunctMatch(_, _, _, _, _)
PunctMatch(inp, L, start, alt, single) ==
    IF Len(alt) = 0 THEN PunctAt(L, single, start)
    ELSE IF Get(inp, L) = alt[1][1] THEN PunctAt(MoveOn(inp, L), alt[1][2], start)
    ELSE PunctMatch(inp, L, start, Tail(alt), single)

\* The first match of scan_punct ("check digraphs"): a token, or "none" with
\* the lexer as that match leaves it.
ScanDigraph(inp, first, M, start) ==
    LET c == Get(inp, M)
    IN CASE first = LT /\ c = COLON -> PunctAt(MoveOn(inp, M), "LBrack", start)
         [] first = LT /\ c = PERCENT -> PunctAt(MoveOn(inp, M), "LBrace", start)
         [] first = PERCENT /\ c = GT -> PunctAt(MoveOn(inp, M), "RBrace", start)
         [] first = PERCENT /\ c = COLON ->
              LET N == MoveOn(inp, M)
              IN IF Get(inp, N) = PERCENT /\ Peek(inp, N) = COLON
                 THEN PunctAt(MoveOn(inp, MoveOn(inp, N)), "HashHash", start)
                 ELSE NoToken(N)
         [] first = COLON /\ c = GT -> PunctAt(MoveOn(inp, M), "RBrack", start)
         [] OTHER -> NoToken(M)

\* The second match of scan_punct ("not a digraph").
ScanPunctTable(inp, first, L, start) ==
    CASE first = LBRACK -> PunctAt(L, "LBrack", start)
      [] first = RBRACK -> PunctAt(L, "RBrack", start)
      [] first = LPAREN -> PunctAt(L, "LParen", start)
      [] first = RPAREN -> PunctAt(L, "RParen", start)
      [] first = DOT ->
           IF Get(inp, L) = DOT /\ Peek(inp, L) = DOT
           THEN PunctAt(MoveOn(inp, MoveOn(inp, L)), "Ellipsis", start)
           ELSE PunctAt(L, "Period", start)
      [] first = MINUS ->
           PunctMatch(inp, L, start, <<<<GT, "Arrow">>, <<MINUS, "MinusMinus">>, <<EQ, "MinusEq">>>>, "Minus")
      [] first = PLUS ->
           PunctMatch(inp, L, start, <<<<PLUS, "PlusPlus">>, <<EQ, "PlusEq">>>>, "Plus")
      [] first = AMP ->
           PunctMatch(inp, L, start, <<<<AMP, "AmpAmp">>, <<EQ, "AmpEq">>>>, "Amp")
      [] first = STAR -> PunctMatch(inp, L, start, <<<<EQ, "StarEq">>>>, "Star")
      [] first = TILDE -> PunctAt(L, "Tilde", start)
      [] first = BANG -> PunctMatch(inp, L, start, <<<<EQ, "BangEq">>>>, "Bang")
      [] first = SLASH -> PunctMatch(inp, L, start, <<<<EQ, "SlashEq">>>>, "Slash")
      [] first = PERCENT -> PunctMatch(inp, L, start, <<<<EQ, "PercentEq">>>>, "Percent")
      [] first = LT ->
           IF Get(inp, L) = EQ THEN PunctAt(MoveOn(inp, L), "LtEq", start)
           ELSE IF Get(inp, L) = LT
           THEN PunctMatch(inp, MoveOn(inp, L), start, <<<<EQ, "LtLtEq">>>>, "LtLt")
           ELSE PunctAt(L, "Lt", start)
      [] first = GT ->
           IF Get(inp, L) = EQ THEN PunctAt(MoveOn(inp, L), "GtEq", start)
           ELSE IF Get(inp, L) = GT
           THEN PunctMatch(inp, MoveOn(inp, L), start, <<<<EQ, "GtGtEq">>>>, "GtGt")
           ELSE PunctAt(L, "Gt", start)
      [] first = EQ -> PunctMatch(inp, L, start, <<<<EQ, "EqEq">>>>, "Eq")
      [] first = CARET -> PunctMatch(inp, L, start, <<<<EQ, "CaretEq">>>>, "Caret")
      [] first = PIPE ->
           PunctMatch(inp, L, start, <<<<PIPE, "PipePipe">>, <<EQ, "PipeEq">>>>, "Pipe")
      [] first = QUESTION -> PunctAt(L, "Question", start)
      [] first = COLON -> PunctAt(L, "Colon", start)
      [] first = COMMA -> PunctAt(L, "Comma", start)
      [] first = HASH -> PunctMatch(inp, L, start, <<<<HASH, "HashHash">>>>, "Hash")
      [] first = LBRACE -> PunctAt(L, "LBrace", start)
      [] first = RBRACE -> PunctAt(L, "RBrace", start)
      [] first = SEMI -> PunctAt(L, "Semicolon", start)
      [] OTHER -> Panicked(L)

ScanPunct(inp, L) ==
    LET first == Get(inp, L)
        d == ScanDigraph(inp, first, MoveOn(inp, L), L.pos)
    IN IF d.out = "token" THEN d ELSE ScanPunctTable(inp, first, d.lex, L.pos)

ScanOther(inp, L) ==
    LET M == MoveOn(inp, L)
    IN EndToken(M, Token("Other", "", L.pos, M.pos))

\* The byte set of the fourth arm of the match in Lexer::next.
IsPunctStart(c) ==
    \/ c \in {BANG, HASH, SLASH}
    \/ c \in PERCENT..AMP
    \/ c \in LPAREN..MINUS
    \/ c \in COLON..SEMI
    \/ c \in EQ..QUESTION
    \/ c \in LBRACK..CARET
    \/ c \in LBRACE..TILDE

EofToken(L) == Token("Eof", "", L.pos, L.pos)

\* The arms of the match in Lexer::next for Some(byte).
DispatchByte(inp, L) ==
    LET c == Get(inp, L)
    IN IF IsIdentByte(c) THEN ScanIdent(inp, L)
       ELSE IF IsDigit(c) \/ c = DOT
       THEN LET r == ScanNumber(inp, L)
            IN IF r.out = "none" THEN ScanPunct(inp, r.lex) ELSE r
       ELSE IF c \in {DQUOTE, SQUOTE, LT}
       THEN LET r == IF L.in_directive \/ c # LT THEN ScanStringLit(inp, L) ELSE NoToken(L)
            IN IF r.out = "none" THEN ScanPunct(inp, r.lex) ELSE r
       ELSE IF IsPunctStart(c) THEN ScanPunct(inp, L)
       ELSE ScanOther(inp, L)

\* Mutant of Dispatch: at the end of the buffer the Lexer yields Eof itself
\* instead of None.
DispatchYieldsEof(inp, L) ==
    IF Get(inp, L) = NoByte THEN Yield(L, EofToken(L)) ELSE DispatchByte(inp, L)

\* Lexer::next after skip_whitespace returned None: the match on get().
Dispatch(inp, L) ==
    IF Get(inp, L) = NoByte THEN NoToken(L) ELSE DispatchByte(inp, L)

\* Lexer::next
LexerNext(inp, L) ==
    LET w == SkipWhitespace(inp, L)
    IN IF w.out = "token" THEN w ELSE Dispatch(inp, w.lex)

(***************************************************************************)
(* The program: main.rs runs Lines::new, merge_escaped_newlines,           *)
(* delete_comments and finish on the input, then pulls tokens from         *)
(* lex(buf).  pc is the program's position.                                *)
(***************************************************************************)
Init ==
    /\ input \in BoundedSeq(PipeBytes, MaxInput)
    /\ lines = <<>>
    /\ merged = <<>>
    /\ builder = OwnedLineEmpty
    /\ comments = CommentStateNew
    /\ wr = 0
    /\ rd = 0
    /\ buf = <<>>
    /\ lexer = LexerNew
    /\ tokens = <<>>
    /\ pc = "input"

\* Lines::new(input)
New ==
    /\ pc = "input"
    /\ lines' = LinesNew(input)
    /\ pc' = "split"
    /\ UNCHANGED <<input, merged, builder, comments, wr, rd, buf, lexer, tokens>>

\* merge_escaped_newlines; `merged` keeps the sequence it returned.
Merge ==
    /\ pc = "split"
    /\ \E wrap \in BOOLEAN :
         LET r == MergeEscapedNewlines(lines, wrap)
         IN IF r.panic
            THEN pc' = "panic" /\ UNCHANGED <<lines, merged>>
            ELSE lines' = r.lines /\ merged' = r.lines /\ pc' = "merged"
    /\ UNCHANGED <<input, builder, comments, wr, rd, buf, lexer, tokens>>

\* One iteration of the outer loop of delete_comments: line rd is swapped
\* out of the sequence, run through the state machine and, unless a block
\* comment is open at its end, the builder is written to slot wr.
DeleteLine ==
    /\ pc = "merged"
    /\ rd < Len(lines)
    /\ LET st == LineStep(builder, comments, lines[rd + 1])
           taken == [lines EXCEPT ![rd + 1] = LineEmpty]
       IN IF st.panic
          THEN pc' = "panic" /\ UNCHANGED <<lines, builder, comments, wr, rd>>
          ELSE /\ pc' = pc
               /\ comments' = st.comments
               /\ rd' = rd + 1
               /\ IF FlushesLine(st.comments)
                  THEN /\ lines' = [taken EXCEPT ![wr + 1] = st.builder]
                       /\ builder' = OwnedLineEmpty
                       /\ wr' = wr + 1
                  ELSE lines' = taken /\ builder' = st.builder /\ wr' = wr
    /\ UNCHANGED <<input, merged, buf, lexer, tokens>>

\* The end of delete_comments: truncate(wr).
DeleteEnd ==
    /\ pc = "merged"
    /\ rd = Len(lines)
    /\ lines' = SubSeq(lines, 1, wr)
    /\ pc' = "stripped"
    /\ UNCHANGED <<input, merged, builder, comments, wr, rd, buf, lexer, tokens>>

\* finish, and lex(buf) constructing the Lexer.
FinishLines ==
    /\ pc = "stripped"
    /\ buf' = Finish(lines)
    /\ lexer' = LexerNew
    /\ pc' = "lexing"
    /\ UNCHANGED <<input, lines, merged, builder, comments, wr, rd, tokens>>

\* One call of next on lex(buf), a Chain of the Lexer and once(Eof): the
\* Lexer's token, or Eof in the call in which the Lexer returns None.
LexNext ==
    /\ pc = "lexing"
    /\ LET r == LexerNext(buf, lexer)
       IN CASE r.out = "token" ->
                 tokens' = Append(tokens, r.tok) /\ lexer' = r.lex /\ pc' = pc
            [] r.out = "none" ->
                 tokens' = Append(tokens, EofToken(r.lex)) /\ lexer' = r.lex /\ pc' = "eof"
            [] r.out = "panic" -> pc' = "panic" /\ UNCHANGED <<tokens, lexer>>
            [] r.out = "spin" -> pc' = "spin" /\ UNCHANGED <<tokens, lexer>>
    /\ UNCHANGED <<input, lines, merged, builder, comments, wr, rd, buf>>

\* The call of next after Eof: the Chain reports exhaustion.
ChainEnd ==
    /\ pc = "eof"
    /\ pc' = "done"
    /\ UNCHANGED <<input, lines, merged, builder, comments, wr, rd, buf, lexer, tokens>>

Next == New \/ Merge \/ DeleteLine \/ DeleteEnd \/ FinishLines \/ LexNext \/ ChainEnd

Spec == Init /\ [][Next]_vars

(***************************************************************************)
(* lex called on its own, on any buffer.                                   *)
(***************************************************************************)
InitLex ==
    /\ input = <<>>
    /\ lines = <<>>
    /\ merged = <<>>
    /\ builder = OwnedLineEmpty
    /\ comments = CommentStateNew
    /\ wr = 0
    /\ rd = 0
    /\ buf \in BoundedSeq(LexBytes, MaxBuf)
    /\ lexer = LexerNew
    /\ tokens = <<>>
    /\ pc = "lexing"

NextLex == LexNext \/ ChainEnd

SpecLex == InitLex /\ [][NextLex]_vars

(***************************************************************************)
(* lex called on its own, on buffers of digraph, quote and newline bytes.  *)
(***************************************************************************)
DigraphBytes == {LT, GT, COLON, PERCENT, HASH, DQUOTE, NL}

InitDigraph ==
    /\ input = <<>>
    /\ lines = <<>>
    /\ merged = <<>>
    /\ builder = OwnedLineEmpty
    /\ comments = CommentStateNew
    /\ wr = 0
    /\ rd = 0
    /\ buf \in BoundedSeq(DigraphBytes, MaxBuf)
    /\ lexer = LexerNew
    /\ tokens = <<>>
    /\ pc = "lexing"

SpecDigraph == InitDigraph /\ [][NextLex]_vars

(***************************************************************************)
(* lex called on its own, on buffers of the bytes of numbers.              *)
(***************************************************************************)
NumberBytes == {DIGIT0, DOT, LOWER_E, UPPER_P, PLUS, LOWER_A}

InitNumber ==
    /\ input = <<>>
    /\ lines = <<>>
    /\ merged = <<>>
    /\ builder = OwnedLineEmpty
    /\ comments = CommentStateNew
    /\ wr = 0
    /\ rd = 0
    /\ buf \in BoundedSeq(NumberBytes, MaxBuf)
    /\ lexer = LexerNew
    /\ tokens = <<>>
    /\ pc = "lexing"

SpecNumber == InitNumber /\ [][NextLex]_vars

(***************************************************************************)
(* lex called on its own, on buffers of punctuator bytes.                  *)
(***************************************************************************)
MaxPunct == 3

PunctBytes ==
    {BANG, HASH, PERCENT, AMP, LPAREN, RPAREN, STAR, PLUS, COMMA, MINUS, DOT, SLASH, COLON,
     SEMI, LT, EQ, GT, QUESTION, LBRACK, RBRACK, CARET, LBRACE, PIPE, RBRACE, TILDE}

\* The bytes that begin or continue an entry of more than one byte.
PunctTailBytes ==
    {BANG, HASH, PERCENT, AMP, STAR, PLUS, MINUS, DOT, SLASH, COLON, LT, EQ, GT, CARET, PIPE}

\* The buffers: any punctuator byte, then up to MaxPunct - 1 of the bytes
\* that entries of more than one byte are made of.
InitPunct ==
    /\ input = <<>>
    /\ lines = <<>>
    /\ merged = <<>>
    /\ builder = OwnedLineEmpty
    /\ comments = CommentStateNew
    /\ wr = 0
    /\ rd = 0
    /\ buf \in {<<>>} \cup {<<b>> \o t : b \in PunctBytes, t \in BoundedSeq(PunctTailBytes, MaxPunct - 1)}
    /\ lexer = LexerNew
    /\ tokens = <<>>
    /\ pc = "lexing"

SpecPunct == InitPunct /\ [][NextLex]_vars

(***************************************************************************)
(* delete_comments taken one character at a time.  `merged` holds the      *)
(* logical lines given to it so far (the last one still being read),       *)
(* `builder` and `comments` are its locals, `lines` the lines it has       *)
(* written and `rd` the number of steps taken (characters and line ends).  *)
(* A character comes with the trivial flag merge_escaped_newlines gave it: *)
(* false, or true on the two last bytes of a spliced physical line, the    *)
(* second of which is the backslash.                                       *)
(***************************************************************************)
MaxFeed == 6

StripBytes == {SLASH, STAR, DQUOTE, SQUOTE, BACKSLASH}

InitStrip ==
    /\ input = <<>>
    /\ lines = <<>>
    /\ merged = <<LineEmpty>>
    /\ builder = OwnedLineEmpty
    /\ comments = CommentStateNew
    /\ wr = 0
    /\ rd = 0
    /\ buf = <<>>
    /\ lexer = LexerNew
    /\ tokens = <<>>
    /\ pc = "strip"

\* The line being read gets the characters infos.
ReadChars(ls, infos) ==
    [ls EXCEPT ![Len(ls)] =
        [text |-> @.text \o [i \in 1..Len(infos) |-> infos[i].ch],
         trivial |-> @.trivial \o [i \in 1..Len(infos) |-> infos[i].trivial],
         synthetic |-> @.synthetic \o [i \in 1..Len(infos) |-> infos[i].synthetic]]]

\* The inner loop of delete_comments over the characters infos.
StripFeed(infos) ==
    /\ pc = "strip"
    /\ rd + Len(infos) <= MaxFeed
    /\ LET st == CharLoop([panic |-> FALSE, builder |-> builder, comments |-> comments], infos, 1)
       IN IF st.panic
          THEN /\ pc' = "panic"
               /\ merged' = ReadChars(merged, infos)
               /\ UNCHANGED <<builder, comments, rd>>
          ELSE /\ pc' = pc
               /\ merged' = ReadChars(merged, infos)
               /\ builder' = st.builder
               /\ comments' = st.comments
               /\ rd' = rd + Len(infos)
    /\ UNCHANGED <<input, lines, wr, buf, lexer, tokens>>

\* One iteration of the inner loop on a byte of the source.
StripChar == \E ch \in StripBytes : StripFeed(<<CharInfoNew(ch, FALSE, FALSE)>>)

\* Two iterations of the inner loop, on the two last bytes of a spliced
\* physical line.
StripSpliced ==
    \E ch \in StripBytes :
        StripFeed(<<CharInfoNew(ch, TRUE, FALSE), CharInfoNew(BACKSLASH, TRUE, FALSE)>>)

\* The end of a line: the virtual \n, and the builder written out or kept.
StripEol ==
    /\ pc = "strip"
    /\ rd < MaxFeed
    /\ LET st == EolStep([panic |-> FALSE, builder |-> builder, comments |-> comments])
       IN IF st.panic
          THEN pc' = "panic" /\ UNCHANGED <<lines, merged, builder, comments, rd>>
          ELSE /\ pc' = pc
               /\ comments' = st.comments
               /\ merged' = Append(merged, LineEmpty)
               /\ rd' = rd + 1
               /\ IF FlushesLine(st.comments)
                  THEN lines' = Append(lines, st.builder) /\ builder' = OwnedLineEmpty
                  ELSE lines' = lines /\ builder' = st.builder
    /\ UNCHANGED <<input, wr, buf, lexer, tokens>>

NextStrip == StripChar \/ StripSpliced \/ StripEol

SpecStrip == InitStrip /\ [][NextStrip]_vars

(***************************************************************************)
(* Properties.                                                             *)
(***************************************************************************)
Positions(seq, S) == {i \in 1..Len(seq) : seq[i] \in S}

Has(seq, b) == \E i \in 1..Len(seq) : seq[i] = b

\* The bytes of token t.
Bytes(t) == SubSeq(buf, t.start + 1, t.end)

\* C1: for every input the pipeline Lines::new, merge_escaped_newlines,
\* delete_comments, finish, lex runs to completion: no step of it fails
\* (no underflow of len - 2, no index out of range in backtrack, no
\* unreachable branch in the lexer).
C1_NoStepFails == pc # "panic"

\* C2: on every finite buffer every call of next returns after finitely
\* many steps, so the iterator yields finitely many tokens and then reports
\* exhaustion: no call of next is left running.
C2_EveryNextReturns == pc # "spin"

\* C3: the token sequence lex produces contains exactly one Eof and it is
\* the last token: in every state an Eof token is the last of the tokens
\* yielded so far (so there is at most one and no token follows it), it
\* has been yielded exactly when the Lexer has returned None, and when the
\* iterator reports exhaustion the sequence ends with it.
C3_OneEofLast ==
    /\ \A i \in 1..Len(tokens) : tokens[i].kind = "Eof" => i = Len(tokens)
    /\ pc \in {"eof", "done"} <=> (Len(tokens) > 0 /\ tokens[Len(tokens)].kind = "Eof")

\* C3 witness: the iterator has reported exhaustion after yielding tokens
\* and then Eof.
C3_Witness ==
    /\ pc = "done"
    /\ Len(tokens) >= 3
    /\ tokens[Len(tokens)].kind = "Eof"

\* C4: lex yields one Eol per newline byte of its buffer, in order: when
\* the iterator is exhausted the Eol tokens are exactly the tokens cut at
\* the offsets of the newline bytes, and no newline lies inside another
\* token.
C4_OneEolPerNewline ==
    pc = "done" =>
        /\ \A p \in Positions(buf, {NL}) :
             \E i \in 1..Len(tokens) : tokens[i].kind = "Eol" /\ tokens[i].start = p - 1
        /\ Cardinality({i \in 1..Len(tokens) : tokens[i].kind = "Eol"})
             = Cardinality(Positions(buf, {NL}))

\* What splicing is to leave of the physical lines ls: every line followed
\* by its line break, less the closing backslash and the line break of each
\* line that ends in a backslash; the last logical line is closed by finish.
RECURSIVE SplicedBytes(_, _)
SplicedBytes(ls, i) ==
    IF i > Len(ls) THEN <<>>
    ELSE LET t == ls[i].text
         IN IF EndsWithBackslash(t)
            THEN SubSeq(t, 1, Len(t) - 1) \o (IF i = Len(ls) THEN <<NL>> ELSE <<>>)
                 \o SplicedBytes(ls, i + 1)
            ELSE t \o <<NL>> \o SplicedBytes(ls, i + 1)

\* C5: merge_escaped_newlines removes from the materialized bytes exactly
\* the closing backslash of each spliced physical line and the line break
\* after it: the non-trivial bytes after splicing are those before it less
\* these bytes (the byte before the backslash is kept).
\* Stated for the inputs none of whose physical lines is a lone backslash
\* (on those len - 2 underflows, the case of C6).
C5_SpliceRemovesOnlyBackslashNewline ==
    LET ls == LinesNew(input)
    IN (pc = "merged" /\ \A i \in 1..Len(ls) : ls[i].text # <<BACKSLASH>>)
       => Finish(merged) = SplicedBytes(ls, 1)

Coherent(line) == Len(line.text) = Len(line.trivial) /\ Len(line.trivial) = Len(line.synthetic)

\* C6: after Lines::new, after merge_escaped_newlines and after
\* delete_comments every line has |text| = |trivial| = |synthetic|.
C6_LengthCoherence ==
    pc \in {"split", "merged", "stripped"} => \A i \in 1..Len(lines) : Coherent(lines[i])

\* Comment removal as the claim C7 describes it, on a byte stream without
\* quotes: // to the end of the line and /* through the next */ are each
\* replaced by one space, every other byte is kept.
RECURSIVE RefStrip(_, _, _)
RefStrip(s, i, mode) ==
    IF i > Len(s) THEN <<>>
    ELSE LET two == IF i < Len(s) THEN <<s[i], s[i + 1]>> ELSE <<s[i]>>
         IN CASE mode = "code" /\ two = <<SLASH, SLASH>> -> <<SP>> \o RefStrip(s, i + 2, "line")
              [] mode = "code" /\ two = <<SLASH, STAR>> -> <<SP>> \o RefStrip(s, i + 2, "block")
              [] mode = "line" /\ s[i] = NL -> <<NL>> \o RefStrip(s, i + 1, "code")
              [] mode = "block" /\ two = <<STAR, SLASH>> -> RefStrip(s, i + 2, "code")
              [] mode = "code" -> <<s[i]>> \o RefStrip(s, i + 1, mode)
              [] OTHER -> RefStrip(s, i + 1, mode)

\* Every /* of the stream has its */.
RECURSIVE RefTerminated(_, _, _)
RefTerminated(s, i, mode) ==
    IF i > Len(s) THEN mode # "block"
    ELSE LET two == IF i < Len(s) THEN <<s[i], s[i + 1]>> ELSE <<s[i]>>
         IN CASE mode = "code" /\ two = <<SLASH, SLASH>> -> RefTerminated(s, i + 2, "line")
              [] mode = "code" /\ two = <<SLASH, STAR>> -> RefTerminated(s, i + 2, "block")
              [] mode = "line" /\ s[i] = NL -> RefTerminated(s, i + 1, "code")
              [] mode = "block" /\ two = <<STAR, SLASH>> -> RefTerminated(s, i + 2, "code")
              [] OTHER -> RefTerminated(s, i + 1, mode)

\* C7: delete_comments replaces every comment (// to the end of the line,
\* /* through the matching */, also across lines) by exactly one space in
\* the materialized output and leaves every other byte unchanged, also when
\* /* ends a line and when a comment directly follows another.  Stated for
\* the inputs without quotes and backslashes whose block comments are all
\* closed, where the lines given to delete_comments are the physical lines.
C7_CommentBecomesOneSpace ==
    LET s == Finish(LinesNew(input))
    IN (/\ pc = "stripped"
        /\ ~Has(input, DQUOTE)
        /\ ~Has(input, BACKSLASH)
        /\ RefTerminated(s, 1, "code"))
       => Finish(lines) = RefStrip(s, 1, "code")

\* A line that is one double-quoted string: it opens with ", closes with "
\* and has no " between.
StringLine(line) ==
    /\ Len(line.text) >= 2
    /\ line.text[1] = DQUOTE
    /\ line.text[Len(line.text)] = DQUOTE
    /\ \A i \in 2..(Len(line.text) - 1) : line.text[i] # DQUOTE

InNormal(c) == ~c.in_string /\ ~c.in_block_comment /\ ~c.in_line_comment

\* C8: inside a double-quoted string that opens and closes on one line, /*
\* and // are not comment openers: when delete_comments, in its Normal
\* state, takes a line that is one such string, it writes that line out
\* with the same bytes and the same flags: no byte is marked trivial and no
\* synthetic byte is inserted.
C8_StringLineUntouched ==
    [][(/\ pc = "merged"
        /\ rd < Len(lines)
        /\ InNormal(comments)
        /\ StringLine(lines[rd + 1]))
       => (/\ pc' = "merged"
           /\ wr' = wr + 1
           /\ Len(lines'[wr'].text) = Len(lines[rd + 1].text)
           /\ Chars(lines'[wr']) = Chars(lines[rd + 1]))]_vars

\* C8 witness: delete_comments has written out a line that is one string
\* holding /* or //, with no flag set.
C8_Witness ==
    /\ pc = "merged"
    /\ wr >= 1
    /\ rd >= wr
    /\ StringLine(lines[wr])
    /\ \E i \in 2..(Len(lines[wr].text) - 2) :
         /\ lines[wr].text[i] = SLASH
         /\ lines[wr].text[i + 1] \in {SLASH, STAR}
    /\ \A i \in 1..Len(lines[wr].text) : ~lines[wr].trivial[i] /\ ~lines[wr].synthetic[i]

\* The token starts at a < byte.
StartsWithLt(t) == t.start < Len(buf) /\ buf[t.start + 1] = LT

\* The tokens that start after the last newline byte before token i.
SameLine(i) ==
    LET nls == {p \in 1..tokens[i].start : buf[p] = NL}
        from == IF nls = {} THEN 0 ELSE CHOOSE p \in nls : \A q \in nls : q <= p
    IN {j \in 1..Len(tokens) : tokens[j].start >= from}

\* Since the last newline before token i, the first token was Punct(Hash),
\* and token i comes after it.
OnDirectiveLine(i) ==
    LET j == MinOf(SameLine(i))
    IN j < i /\ IsHash(tokens[j])

LtPuncts == {"Lt", "LtEq", "LtLt", "LtLtEq", "LBrack", "LBrace"}

\* C9: a StringLit whose first byte is < is yielded only if, since the last
\* newline, the first token of the line was Punct(Hash); on any other line
\* a token that starts at < is one of the punctuators Lt, LtEq, LtLt,
\* LtLtEq, LBrack, LBrace.
C9_HeaderNameOnlyAfterHash ==
    \A i \in 1..Len(tokens) :
        /\ (tokens[i].kind = "StringLit" /\ StartsWithLt(tokens[i])) => OnDirectiveLine(i)
        /\ (StartsWithLt(tokens[i]) /\ ~OnDirectiveLine(i))
             => (tokens[i].kind = "Punct" /\ tokens[i].punct \in LtPuncts)

\* C9 witness: a header name has been yielded on a line that began with #,
\* and on a later line a < has been yielded as a punctuator.
C9_Witness ==
    \E i, j \in 1..Len(tokens) :
        /\ i < j
        /\ tokens[i].kind = "StringLit" /\ StartsWithLt(tokens[i]) /\ OnDirectiveLine(i)
        /\ tokens[j].kind = "Punct" /\ StartsWithLt(tokens[j]) /\ ~OnDirectiveLine(j)

\* The directive names after which a header name may stand: include, import.
IncludeNames == {<<105, 110, 99, 108, 117, 100, 101>>, <<105, 109, 112, 111, 114, 116>>}

\* Token i stands on a directive line whose directive name (the token after
\* the #) is an include-style one.
OnIncludeLine(i) ==
    LET j == MinOf(SameLine(i))
    IN /\ j + 1 < i
       /\ IsHash(tokens[j])
       /\ tokens[j + 1].kind = "Ident"
       /\ Bytes(tokens[j + 1]) \in IncludeNames

\* C10: <...> is a header-name StringLit only in an include-style
\* directive; on any other directive line < and > are the punctuators Lt
\* and Gt.
C10_HeaderNameOnlyInInclude ==
    \A i \in 1..Len(tokens) :
        (tokens[i].kind = "StringLit" /\ StartsWithLt(tokens[i])) => OnIncludeLine(i)

\* Bytes n..m (1-based, inclusive) of the buffer are the bytes s.
BufHas(n, s) == n + Len(s) - 1 <= Len(buf) /\ SubSeq(buf, n, n + Len(s) - 1) = s

\* The punctuator a digraph at offset p of the buffer stands for, and the
\* number of bytes it has; "" where no digraph starts.
DigraphName(p) ==
    CASE BufHas(p + 1, <<LT, COLON>>) -> "LBrack"
      [] BufHas(p + 1, <<COLON, GT>>) -> "RBrack"
      [] BufHas(p + 1, <<LT, PERCENT>>) -> "LBrace"
      [] BufHas(p + 1, <<PERCENT, GT>>) -> "RBrace"
      [] BufHas(p + 1, <<PERCENT, COLON, PERCENT, COLON>>) -> "HashHash"
      [] BufHas(p + 1, <<PERCENT, COLON>>) -> "Hash"
      [] OTHER -> ""

DigraphLen(p) == IF DigraphName(p) = "HashHash" THEN 4 ELSE 2

\* C11: a token that starts at a digraph is that digraph's punctuator and
\* ends after the digraph's own bytes (<: LBrack, :> RBrack, <% LBrace,
\* %> RBrace, %: Hash with pos advanced by 2, %:%: HashHash); and when the
\* token just yielded is a %: that is the first token of its line, the
\* lexer is in a directive, as after #.
C11_DigraphsArePunctuators ==
    /\ \A i \in 1..Len(tokens) :
         (tokens[i].kind \notin {"Eol", "Eof"} /\ DigraphName(tokens[i].start) # "")
         => /\ tokens[i].kind = "Punct"
            /\ tokens[i].punct = DigraphName(tokens[i].start)
            /\ tokens[i].end = tokens[i].start + DigraphLen(tokens[i].start)
    /\ (/\ Len(tokens) > 0
        /\ tokens[Len(tokens)].kind \notin {"Eol", "Eof"}
        /\ DigraphName(tokens[Len(tokens)].start) = "Hash"
        /\ MinOf(SameLine(Len(tokens))) = Len(tokens))
       => lexer.in_directive

\* No physical line of the input is a lone backslash (the line on which
\* len - 2 underflows in merge_escaped_newlines).
NoLoneBackslashLine ==
    \A i \in 1..Len(LinesNew(input)) : LinesNew(input)[i].text # <<BACKSLASH>>

\* The line pipeline of main.rs run on the bytes s: its outcome and the
\* bytes finish returns.
Pipeline(s, wrap) ==
    LET m == MergeEscapedNewlines(LinesNew(s), wrap)
    IN IF m.panic THEN [panic |-> TRUE, bytes |-> <<>>]
       ELSE LET d == DeleteComments(m.lines)
            IN [panic |-> d.panic, bytes |-> IF d.panic THEN <<>> ELSE Finish(d.lines)]

\* No / of s is directly followed by / or *.
NoOpenerPair(s) == \A i \in 1..(Len(s) - 1) : ~(s[i] = SLASH /\ s[i + 1] \in {SLASH, STAR})

\* C12: comment stripping is idempotent: delete_comments applied to the
\* lines delete_comments returned changes no byte and no flag; the line
\* pipeline run again on the materialized output returns the same bytes;
\* and a materialized output without quotes holds no // and no /*.
\* Stated for the inputs none of whose physical lines is a lone backslash.
C12_StripIsIdempotent ==
    (pc = "stripped" /\ NoLoneBackslashLine)
    => /\ DeleteComments(lines) = [panic |-> FALSE, lines |-> lines]
       /\ \A wrap \in BOOLEAN :
            Pipeline(Finish(lines), wrap) = [panic |-> FALSE, bytes |-> Finish(lines)]
       /\ ~Has(Finish(lines), DQUOTE) => NoOpenerPair(Finish(lines))

\* C13: splicing is idempotent: merge_escaped_newlines applied to the lines
\* merge_escaped_newlines returned leaves the number of lines and every
\* line's text, trivial and synthetic flags unchanged, also when a line
\* that ends in a backslash is followed by an empty line or is the last.
\* Stated for the inputs none of whose physical lines is a lone backslash.
C13_SpliceIsIdempotent ==
    (pc = "merged" /\ rd = 0 /\ NoLoneBackslashLine)
    => \A wrap \in BOOLEAN :
         MergeEscapedNewlines(merged, wrap) = [panic |-> FALSE, lines |-> merged]

\* The offset of the first newline byte after offset p of the buffer, or
\* Len(buf) where there is none.
NextNewline(p) ==
    LET nls == {q \in (p + 1)..(Len(buf) - 1) : buf[q + 1] = NL}
    IN IF nls = {} THEN Len(buf) ELSE MinOf(nls)

\* At offset p a literal opens (" or ') whose terminator does not occur
\* before the next newline, and that newline exists.
UnterminatedAt(p) ==
    /\ p < Len(buf)
    /\ buf[p + 1] \in {DQUOTE, SQUOTE}
    /\ NextNewline(p) < Len(buf)
    /\ \A q \in (p + 1)..(NextNewline(p) - 1) : buf[q + 1] # buf[p + 1]

\* C14: a token that starts at the opener of a literal with no terminator
\* before the next newline is Other, its bytes run from the opener up to
\* but not including that newline, and the token after it is Eol.
C14_UnterminatedLiteralIsOther ==
    \A i \in 1..Len(tokens) :
        (tokens[i].kind \notin {"Eol", "Eof"} /\ UnterminatedAt(tokens[i].start))
        => /\ tokens[i].kind = "Other"
           /\ tokens[i].end = NextNewline(tokens[i].start)
           /\ i < Len(tokens) => tokens[i + 1].kind = "Eol"

\* The position in s of the /* that is still open at the end of s, read as
\* C reads comments (a /* is closed by the next */ after it); 0 where no
\* block comment is open at the end.
RECURSIVE RefOpenAt(_, _, _, _)
RefOpenAt(s, i, mode, k) ==
    IF i > Len(s) THEN (IF mode = "block" THEN k ELSE 0)
    ELSE LET two == IF i < Len(s) THEN <<s[i], s[i + 1]>> ELSE <<s[i]>>
         IN CASE mode = "code" /\ two = <<SLASH, SLASH>> -> RefOpenAt(s, i + 2, "line", k)
              [] mode = "code" /\ two = <<SLASH, STAR>> -> RefOpenAt(s, i + 2, "block", i)
              [] mode = "line" /\ s[i] = NL -> RefOpenAt(s, i + 1, "code", k)
              [] mode = "block" /\ two = <<STAR, SLASH>> -> RefOpenAt(s, i + 2, "code", k)
              [] OTHER -> RefOpenAt(s, i + 1, mode, k)

IsPrefix(a, b) == Len(a) <= Len(b) /\ SubSeq(b, 1, Len(a)) = a

\* C15: if the input ends while a block comment is open, nothing of the
\* bytes from its opener to the end of the input reaches the tokenizer:
\* the materialized output is a prefix of the output for the input cut
\* before the opener; and the exhausted token stream ends with the one
\* Eof.  Stated for the inputs without quotes and backslashes.
C15_OpenBlockCommentYieldsNothing ==
    LET k == RefOpenAt(input, 1, "code", 0)
        cut == Finish(LinesNew(SubSeq(input, 1, k - 1)))
    IN (~Has(input, DQUOTE) /\ ~Has(input, BACKSLASH) /\ k > 0)
       => /\ pc = "stripped" => IsPrefix(Finish(lines), RefStrip(cut, 1, "code"))
          /\ pc = "done" =>
               /\ tokens[Len(tokens)].kind = "Eof"
               /\ \A i \in 1..(Len(tokens) - 1) : tokens[i].kind # "Eof"

\* The offset of the terminator of the literal whose body is read from
\* offset q on: the first byte equal to the opener that is on the same line
\* and is not the second byte of a backslash escape; -1 where the line or
\* the buffer ends first.
RECURSIVE RefTerminator(_, _)
RefTerminator(q, opener) ==
    IF q >= Len(buf) \/ buf[q + 1] = NL THEN -1
    ELSE IF buf[q + 1] = opener THEN q
    ELSE IF buf[q + 1] = BACKSLASH
    THEN (IF q + 1 >= Len(buf) \/ buf[q + 2] = NL THEN -1 ELSE RefTerminator(q + 2, opener))
    ELSE RefTerminator(q + 1, opener)

\* At offset p a literal opens (" or ') that is terminated on its line.
TerminatedAt(p) ==
    /\ p < Len(buf)
    /\ buf[p + 1] \in {DQUOTE, SQUOTE}
    /\ RefTerminator(p + 1, buf[p + 1]) >= 0

\* The offset at which the token of the next call of next begins.
DispatchPos == SkipWhitespace(buf, lexer).lex.pos

\* C16: a token that starts at the opener of a literal terminated on its
\* line is one StringLit from the opener through the terminator, whatever
\* the first body byte is, so "%d" and ":" too; and next does not fail
\* when it is called at such an opener.
C16_TerminatedLiteralIsStringLit ==
    /\ \A i \in 1..Len(tokens) :
         (tokens[i].kind \notin {"Eol", "Eof"} /\ TerminatedAt(tokens[i].start))
         => /\ tokens[i].kind = "StringLit"
            /\ tokens[i].end = RefTerminator(tokens[i].start + 1, buf[tokens[i].start + 1]) + 1
    /\ pc = "panic" => ~TerminatedAt(DispatchPos)

\* The punctuator byte set as the claim C17 lists it:
\* ! # % & ( ) * + , - . / : ; < = > ? [ ] ^ { | } ~
ListedPunctBytes ==
    {BANG, HASH, PERCENT, AMP, LPAREN, RPAREN, STAR, PLUS, COMMA, MINUS, DOT, SLASH, COLON,
     SEMI, LT, EQ, GT, QUESTION, LBRACK, RBRACK, CARET, LBRACE, PIPE, RBRACE, TILDE}

\* A byte that is no whitespace, no letter, digit or _, no quote and no
\* listed punctuator byte; the backslash is one.
IsOtherByte(c) ==
    /\ c \in 0..255
    /\ c \notin {SP, TAB, CR, NL, DQUOTE, SQUOTE}
    /\ ~IsIdentByte(c)
    /\ ~IsDigit(c)
    /\ c \notin ListedPunctBytes

\* C17: a token that starts at such a byte is Other, holds exactly that
\* byte and leaves pos one past it; and next does not fail when it is
\* called at such a byte.
C17_OtherByteIsOther ==
    /\ \A i \in 1..Len(tokens) :
         (tokens[i].kind \notin {"Eol", "Eof"} /\ IsOtherByte(buf[tokens[i].start + 1]))
         => /\ tokens[i].kind = "Other"
            /\ tokens[i].end = tokens[i].start + 1
    /\ pc = "panic" => ~IsOtherByte(Get(buf, SkipWhitespace(buf, lexer).lex))

\* C18: in delete_comments the InString state is reset at the end of every
\* logical line: between two lines, and after the last, the state is not
\* InString, so a // or /* on the line after an unterminated " is taken as
\* a comment.
C18_InStringResetAtEol ==
    pc \in {"merged", "stripped"} => ~comments.in_string

\* The state of delete_comments at the end of line i of ls (before the
\* builder is written out or kept): the state machine run over the lines
\* 1..i, the builder carried over the lines that ended in InBlockComment.
RECURSIVE EndOfLine(_, _)
EndOfLine(ls, i) ==
    IF i = 0 THEN [panic |-> FALSE, builder |-> OwnedLineEmpty, comments |-> CommentStateNew]
    ELSE LET p == EndOfLine(ls, i - 1)
         IN IF p.panic THEN p
            ELSE LineStep(IF p.comments.in_block_comment THEN p.builder ELSE OwnedLineEmpty,
                          p.comments, ls[i])

\* The lines among the first n of ls at whose end the state is InBlockComment.
EndInBlock(ls, n) == {i \in 1..n : EndOfLine(ls, i).comments.in_block_comment}

\* C19: delete_comments writes no output line for a line at whose end the
\* state is InBlockComment and exactly one for every other line, and the
\* state carries over to the next line: after rd lines the number of lines
\* written is rd less the lines among them that ended in InBlockComment,
\* the state is the one the state machine reached at the end of line rd,
\* and the sequence returned has the input's line count less the number of
\* lines that ended in InBlockComment.
C19_OneLinePerLineOutsideBlock ==
    /\ pc = "merged" =>
         /\ wr = rd - Cardinality(EndInBlock(merged, rd))
         /\ comments = EndOfLine(merged, rd).comments
    /\ pc = "stripped" =>
         Len(lines) = Len(merged) - Cardinality(EndInBlock(merged, Len(merged)))

\* C19 witness: delete_comments has returned fewer lines than it was
\* given, and at least one.
C19_Witness ==
    /\ pc = "stripped"
    /\ Len(lines) >= 1
    /\ Len(lines) < Len(merged)
    /\ EndInBlock(merged, Len(merged)) # {}

\* C20: in every line delete_comments has written to the output sequence
\* no position is both synthetic and trivial: every synthetic space put in
\* for a comment is non-trivial in the finalized line.
C20_NoSyntheticTrivial ==
    pc \in {"merged", "stripped"} =>
        \A i \in 1..wr : \A j \in 1..CharsLen(lines[i]) :
            ~(lines[i].synthetic[j] /\ lines[i].trivial[j])

\* The state of the comment-strip state machine the flags stand for.
StateOf(c) ==
    IF c.in_string THEN "InString"
    ELSE IF c.in_block_comment THEN "InBlockComment"
    ELSE IF c.in_line_comment THEN "InLineComment"
    ELSE "Normal"

\* The transition table of section 4.3 of the specification: the action
\* and the next state for the state s, the current byte c and prev_char p.
TableRow(s, c, p) ==
    CASE s = "InString" ->
           IF c = DQUOTE /\ p # BACKSLASH
           THEN [action |-> "emit", next |-> "Normal"]
           ELSE [action |-> "emit", next |-> "InString"]
      [] s = "InBlockComment" ->
           IF c = SLASH /\ p = STAR
           THEN [action |-> "none", next |-> "Normal"]
           ELSE [action |-> "none", next |-> "InBlockComment"]
      [] s = "InLineComment" ->
           IF c = NL
           THEN [action |-> "emit", next |-> "Normal"]
           ELSE [action |-> "none", next |-> "InLineComment"]
      [] s = "Normal" ->
           IF c = SLASH /\ p = SLASH THEN [action |-> "space", next |-> "InLineComment"]
           ELSE IF c = STAR /\ p = SLASH THEN [action |-> "space", next |-> "InBlockComment"]
           ELSE IF c = DQUOTE THEN [action |-> "emit", next |-> "InString"]
           ELSE [action |-> "emit", next |-> "Normal"]

\* What the result e of should_emit(ch, ...) decides: emit ch, emit the
\* synthetic space with backtrack(2), or do not emit.
Decision(e, ch) ==
    IF ~e.some THEN "none"
    ELSE IF e.ch = ch /\ e.pop_count = 0 THEN "emit"
    ELSE IF e.ch = SP /\ e.pop_count = 2 THEN "space"
    ELSE "other"

FlagCount(c) ==
    (IF c.in_string THEN 1 ELSE 0) + (IF c.in_block_comment THEN 1 ELSE 0)
    + (IF c.in_line_comment THEN 1 ELSE 0)

\* C21: should_emit implements the transition table: in every state
\* delete_comments reaches at most one of in_string, in_line_comment and
\* in_block_comment is true, and for every byte the decision of should_emit
\* and the state it leaves are those of the table's row for the state, the
\* byte and prev_char.
C21_ShouldEmitIsTheTable ==
    /\ FlagCount(comments) <= 1
    /\ \A ch \in StripBytes \cup {NL} :
         LET e == ShouldEmit(ch, comments)
             row == TableRow(StateOf(comments), ch, comments.prev_char)
         IN /\ Decision(e, ch) = row.action
            /\ StateOf(e.comments) = row.next
            /\ FlagCount(e.comments) <= 1
            /\ e.comments.prev_char = comments.prev_char

\* C21 witness: delete_comments is in InBlockComment after a *, where the
\* table's closing row applies to the next /.
C21_Witness ==
    /\ pc = "strip"
    /\ comments.in_block_comment
    /\ comments.prev_char = STAR
    /\ Len(builder.text) >= 4

\* The byte at offset q of the buffer, NoByte past its end.
At(q) == IF q < Len(buf) THEN buf[q + 1] ELSE NoByte

\* [0-9._A-Za-z]
IsBodyByte(c) == c \in DIGIT0..DIGIT9 \/ c \in {DOT, UNDERSCORE} \/ c \in UPPER_A..UPPER_Z \/ c \in LOWER_A..LOWER_Z

\* The offsets at which a match of ([0-9._A-Za-z] | [eEpP][+-]?)* that
\* starts at offset q can end.
RECURSIVE BodyEnds(_)
BodyEnds(q) ==
    {q} \cup (IF IsBodyByte(At(q)) THEN BodyEnds(q + 1) ELSE {})
        \cup (IF At(q) \in {LOWER_E, UPPER_E, LOWER_P, UPPER_P} /\ At(q + 1) \in {PLUS, MINUS}
              THEN BodyEnds(q + 2) ELSE {})

MaxOf(S) == CHOOSE k \in S : \A j \in S : j <= k

\* A match of (\.?[0-9]) starts at offset p.
NumberAt(p) == IsDigit(At(p)) \/ (At(p) = DOT /\ IsDigit(At(p + 1)))

\* The end of the longest match of
\* (\.?[0-9])([0-9._A-Za-z] | [eEpP][+-]?)* that starts at offset p.
NumberEnd(p) == MaxOf(BodyEnds(IF At(p) = DOT THEN p + 2 ELSE p + 1))

\* C22: a token that starts at a digit, or at a . followed by a digit, is
\* Number over the longest match of the expression; a token that starts at
\* a . not followed by a digit is Ellipsis if two more . follow and Period
\* otherwise; and called at such a . scan_number returns rejection and
\* leaves pos, at_line_start and in_directive as they were.
C22_NumberIsMaximalMatch ==
    /\ \A i \in 1..Len(tokens) :
         LET t == tokens[i]
         IN /\ (t.kind \notin {"Eol", "Eof"} /\ NumberAt(t.start))
               => (t.kind = "Number" /\ t.end = NumberEnd(t.start))
            /\ (t.kind \notin {"Eol", "Eof"} /\ At(t.start) = DOT /\ ~NumberAt(t.start))
               => /\ t.kind = "Punct"
                  /\ IF At(t.start + 1) = DOT /\ At(t.start + 2) = DOT
                     THEN t.punct = "Ellipsis" /\ t.end = t.start + 3
                     ELSE t.punct = "Period" /\ t.end = t.start + 1
    /\ LET L == SkipWhitespace(buf, lexer).lex
       IN (pc = "lexing" /\ At(L.pos) = DOT /\ ~NumberAt(L.pos))
          => ScanNumber(buf, L) = NoToken(L)

\* C22 witness: a . not followed by a digit has been yielded as Period and
\* a Number that holds a sign after an exponent letter has been yielded.
C22_Witness ==
    /\ \E i \in 1..Len(tokens) : tokens[i].kind = "Punct" /\ tokens[i].punct = "Period"
    /\ \E i \in 1..Len(tokens) :
         /\ tokens[i].kind = "Number"
         /\ \E q \in tokens[i].start..(tokens[i].end - 1) : At(q) \in {PLUS, MINUS}

\* The non-digraph punctuator table as the claim C23 lists it: the
\* single-byte entries, the two-byte entries
\* -> -- -= ++ += && &= *= != /= %= <= << >= >> == ^= || |= ##
\* and the three-byte entries ... <<= >>=, each with its kind.
ListedPunctTable ==
    {<<<<LBRACK>>, "LBrack">>, <<<<RBRACK>>, "RBrack">>, <<<<LPAREN>>, "LParen">>,
     <<<<RPAREN>>, "RParen">>, <<<<LBRACE>>, "LBrace">>, <<<<RBRACE>>, "RBrace">>,
     <<<<DOT>>, "Period">>, <<<<COMMA>>, "Comma">>, <<<<SEMI>>, "Semicolon">>,
     <<<<COLON>>, "Colon">>, <<<<QUESTION>>, "Question">>, <<<<TILDE>>, "Tilde">>,
     <<<<HASH>>, "Hash">>, <<<<EQ>>, "Eq">>, <<<<LT>>, "Lt">>, <<<<GT>>, "Gt">>,
     <<<<PLUS>>, "Plus">>, <<<<MINUS>>, "Minus">>, <<<<STAR>>, "Star">>,
     <<<<SLASH>>, "Slash">>, <<<<PERCENT>>, "Percent">>, <<<<AMP>>, "Amp">>,
     <<<<PIPE>>, "Pipe">>, <<<<CARET>>, "Caret">>, <<<<BANG>>, "Bang">>,
     <<<<MINUS, GT>>, "Arrow">>, <<<<MINUS, MINUS>>, "MinusMinus">>,
     <<<<MINUS, EQ>>, "MinusEq">>, <<<<PLUS, PLUS>>, "PlusPlus">>,
     <<<<PLUS, EQ>>, "PlusEq">>, <<<<AMP, AMP>>, "AmpAmp">>, <<<<AMP, EQ>>, "AmpEq">>,
     <<<<STAR, EQ>>, "StarEq">>, <<<<BANG, EQ>>, "BangEq">>, <<<<SLASH, EQ>>, "SlashEq">>,
     <<<<PERCENT, EQ>>, "PercentEq">>, <<<<LT, EQ>>, "LtEq">>, <<<<LT, LT>>, "LtLt">>,
     <<<<GT, EQ>>, "GtEq">>, <<<<GT, GT>>, "GtGt">>, <<<<EQ, EQ>>, "EqEq">>,
     <<<<CARET, EQ>>, "CaretEq">>, <<<<PIPE, PIPE>>, "PipePipe">>,
     <<<<PIPE, EQ>>, "PipeEq">>, <<<<HASH, HASH>>, "HashHash">>,
     <<<<DOT, DOT, DOT>>, "Ellipsis">>, <<<<LT, LT, EQ>>, "LtLtEq">>,
     <<<<GT, GT, EQ>>, "GtGtEq">>}

\* The longest entry of the table that is a prefix of the buffer from
\* offset p on.
LongestEntry(p) ==
    LET fits == {e \in ListedPunctTable : e[1][1] = buf[p + 1] /\ BufHas(p + 1, e[1])}
    IN CHOOSE e \in fits : \A f \in fits : Len(f[1]) <= Len(e[1])

\* C23: a Punct yielded at a position where no digraph starts is the
\* longest entry of the non-digraph table that is a prefix of the rest of
\* the buffer, and the token ends exactly after that entry; so two periods
\* not followed by a third are Period, Period.  (The positions where a
\* digraph starts are the subject of C11.)
C23_PunctIsLongestMatch ==
    \A i \in 1..Len(tokens) :
        (tokens[i].kind = "Punct" /\ DigraphName(tokens[i].start) = "")
        => LET e == LongestEntry(tokens[i].start)
           IN tokens[i].punct = e[2] /\ tokens[i].end = tokens[i].start + Len(e[1])

\* C23 witness: a three-byte entry has been yielded, or two periods not
\* followed by a third have been yielded as Period, Period.
C23_Witness ==
    /\ pc = "done"
    /\ \/ \E i \in 1..Len(tokens) :
             tokens[i].kind = "Punct" /\ tokens[i].punct \in {"Ellipsis", "LtLtEq", "GtGtEq"}
       \/ /\ Len(tokens) >= 3
          /\ tokens[1].kind = "Punct" /\ tokens[1].punct = "Period"
          /\ tokens[2].kind = "Punct" /\ tokens[2].punct = "Period"
          /\ tokens[3].kind = "Punct" /\ tokens[3].punct # "Period"

\* The bytes delete_comments has read: the lines read, each closed by its
\* line end, and the part read of the line it is in.
RECURSIVE ReadBytes(_, _)
ReadBytes(ls, i) ==
    IF i > Len(ls) THEN <<>>
    ELSE ls[i].text \o (IF i < Len(ls) THEN <<NL>> ELSE <<>>) \o ReadBytes(ls, i + 1)

\* No byte read came with its trivial flag set.
NoneTrivial(ls) == \A i \in 1..Len(ls) : \A j \in 1..Len(ls[i].trivial) : ~ls[i].trivial[j]

\* Where a reader of C is after the bytes s[i..]: in code, in a string
\* literal, in a character literal, in a line comment or in a block
\* comment.  A literal ends at its closing quote or at the end of the line;
\* a backslash in a literal takes the next byte with it.
RECURSIVE RefMode(_, _, _)
RefMode(s, i, mode) ==
    IF i > Len(s) THEN mode
    ELSE LET two == IF i < Len(s) THEN <<s[i], s[i + 1]>> ELSE <<s[i]>>
         IN CASE mode = "code" /\ two = <<SLASH, SLASH>> -> RefMode(s, i + 2, "line")
              [] mode = "code" /\ two = <<SLASH, STAR>> -> RefMode(s, i + 2, "block")
              [] mode = "code" /\ s[i] = DQUOTE -> RefMode(s, i + 1, "string")
              [] mode = "code" /\ s[i] = SQUOTE -> RefMode(s, i + 1, "char")
              [] mode \in {"string", "char"} /\ s[i] = BACKSLASH /\ Len(two) = 2 /\ two[2] # NL ->
                   RefMode(s, i + 2, mode)
              [] mode = "string" /\ s[i] = DQUOTE -> RefMode(s, i + 1, "code")
              [] mode = "char" /\ s[i] = SQUOTE -> RefMode(s, i + 1, "code")
              [] mode \in {"string", "char", "line"} /\ s[i] = NL -> RefMode(s, i + 1, "code")
              [] mode = "block" /\ two = <<STAR, SLASH>> -> RefMode(s, i + 2, "code")
              [] OTHER -> RefMode(s, i + 1, mode)

\* The state of delete_comments that stands for the reader's place.
StateFor(mode) ==
    CASE mode = "string" -> "InString"
      [] mode = "line" -> "InLineComment"
      [] mode = "block" -> "InBlockComment"
      [] OTHER -> "Normal"

\* C24: comment deletion is aware of character literals: after bytes that
\* hold a ' (none of them trivial), delete_comments is in InString only if
\* the reader is in a string literal, and in a comment only if the reader
\* is in one: a " inside '...' opens no string, a comment after such a
\* literal is a comment, and // or /* inside '...' opens none.
C24_CharLiteralAware ==
    LET s == ReadBytes(merged, 1)
    IN (pc = "strip" /\ NoneTrivial(merged) /\ Has(s, SQUOTE))
       => StateOf(comments) = StateFor(RefMode(s, 1, "code"))

\* The last line of ls at whose end delete_comments is not in
\* InBlockComment (0 where there is none): the last line it writes out.
LastFlushed(ls) == MaxOf({i \in 0..Len(ls) : ~EndOfLine(ls, i).comments.in_block_comment})

\* C25: when the input ends while in_block_comment is set, the builder is
\* never written out: the sequence delete_comments returns is the one it
\* returns for the lines up to the last line that did not end in
\* InBlockComment, so no line is produced for the line on which the
\* comment opened nor for a later one, the bytes before the opener on that
\* line included; and the tokenizer is given that sequence's bytes only.
C25_OpenBlockCommentDropsLine ==
    (pc \in {"stripped", "lexing", "eof", "done"} /\ comments.in_block_comment)
    => LET j == LastFlushed(merged)
       IN /\ j < Len(merged)
          /\ DeleteComments(SubSeq(merged, 1, j)) = [panic |-> FALSE, lines |-> lines]
          /\ Len(lines) <= j
          /\ pc # "stripped" => buf = Finish(lines)

\* C25 witness: the input ended inside a block comment whose line begins
\* with a letter, after a line that was written out: the iterator is
\* exhausted and the only tokens are those of the line written out.
C25_Witness ==
    /\ pc = "done"
    /\ comments.in_block_comment
    /\ LastFlushed(merged) >= 1
    /\ merged[LastFlushed(merged) + 1].text[1] = LOWER_A
    /\ Len(tokens) = 3
    /\ tokens[1].kind = "Ident"

\* The byte prev_char holds after the characters of ls were read: the last
\* byte of the line being read whose trivial flag is false, or the \n of
\* the line before, or the initial value.
RefPrevChar(ls) ==
    LET cur == ls[Len(ls)]
        k == MaxOf({0} \cup {i \in 1..Len(cur.text) : ~cur.trivial[i]})
    IN IF k > 0 THEN cur.text[k]
       ELSE IF Len(ls) > 1 THEN NL ELSE CommentStateNew.prev_char

\* The step reads the one byte c, with a false trivial flag.
FedIs(c) ==
    LET cur == merged[Len(merged)]
        new == merged'[Len(merged')]
    IN /\ Len(merged') = Len(merged)
       /\ Len(new.text) = Len(cur.text) + 1
       /\ new.text[Len(new.text)] = c
       /\ ~new.trivial[Len(new.text)]

\* The last byte read is a non-trivial byte c of the line being read.
LastFedIs(c) ==
    LET cur == merged[Len(merged)]
    IN /\ Len(cur.text) > 0
       /\ cur.text[Len(cur.text)] = c
       /\ ~cur.trivial[Len(cur.text)]

\* The byte just read was the * of a block comment opener: the builder
\* ends with the opener's synthetic space.
JustOpened ==
    /\ StateOf(comments) = "InBlockComment"
    /\ LastFedIs(STAR)
    /\ Len(builder.text) > 0
    /\ builder.synthetic[Len(builder.text)]

\* The byte just read was the / that closed a block comment: it is the last
\* of the builder, marked trivial, and the state is Normal.
JustClosed ==
    /\ StateOf(comments) = "Normal"
    /\ LastFedIs(SLASH)
    /\ Len(builder.text) > 0
    /\ builder.trivial[Len(builder.text)]

\* The synthetic space of the last comment opened (0 where there is none).
LastSpace(b) == MaxOf({0} \cup {i \in 1..Len(b.text) : b.synthetic[i]})

\* C26: in every step of delete_comments, prev_char is afterwards the last
\* byte read whose trivial flag is false (the \n of the line before where
\* the line has none); a / read right after the * of a block comment opener
\* closes the comment; and a / or * read right after the / that closed a
\* block comment opens a line or block comment whose backtrack(2) marks the
\* synthetic space of the comment just closed trivial.
C26_PrevCharFromEveryByte ==
    [][pc = "strip" =>
        /\ pc' = "strip" => comments'.prev_char = RefPrevChar(merged')
        /\ (JustOpened /\ FedIs(SLASH))
              => pc' = "strip" /\ StateOf(comments') = "Normal"
        /\ \A c \in {SLASH, STAR} :
              (JustClosed /\ FedIs(c))
              => /\ pc' = "strip"
                 /\ StateOf(comments') = (IF c = SLASH THEN "InLineComment" ELSE "InBlockComment")
                 /\ LastSpace(builder) > 0
                 /\ ~builder.trivial[LastSpace(builder)]
                 /\ builder'.trivial[LastSpace(builder)]
    ]_vars

====
